---- MODULE Spec2Model ----
(***************************************************************************)
(* Judging pipeline of logic-legends: the API's submit_solution            *)
(* (src/api/main.py), and the worker of src/api/executor.py:               *)
(* CodeExecutor.execute_code, run_dynamic_checker, judge_submission and    *)
(* the loop main().                                                        *)
(*                                                                         *)
(* Strings are modelled as sequences of tokens, " " standing for any run   *)
(* of whitespace, so that str.strip() and str.upper() are computed.        *)
(* What Docker, Redis and the Supabase store answer is drawn from small    *)
(* sets.  executor.py never binds SUPABASE_URL, SUPABASE_KEY or datetime;  *)
(* the NameError these raise is one of the outcomes of the raising steps   *)
(* (JudgeRaises), the other outcome being a deployment that binds them.    *)
(***************************************************************************)
EXTENDS Integers, Sequences, FiniteSets, TLC

\* ---------------------------------------------------------------- bounds
MaxSubs == 2
MaxRedeliver == 1
MaxFaults == 1

\* ------------------------------------------------------------- alphabet
Workers == {"w1", "w2"}
LiveWorkers == {"w1"}

TerminalVerdicts == {"AC", "WA", "TLE", "MLE", "RE", "CE"}

Max(a, b) == IF a >= b THEN a ELSE b

\* ----------------------------------------------------- strings as tokens
RECURSIVE LStrip(_)
LStrip(s) == IF s # <<>> /\ Head(s) = " " THEN LStrip(Tail(s)) ELSE s

RECURSIVE RStrip(_)
RStrip(s) ==
    IF s # <<>> /\ s[Len(s)] = " " THEN RStrip(SubSeq(s, 1, Len(s) - 1)) ELSE s

\* str.strip()
Strip(s) == RStrip(LStrip(s))

UpperTok(t) == IF t = "accept" THEN "ACCEPT"
               ELSE IF t = "reject" THEN "REJECT"
               ELSE IF t = "not" THEN "NOT"
               ELSE t

\* str.upper()
Upper(s) == [k \in 1..Len(s) |-> UpperTok(s[k])]

\* dict.get(key, default) for the two numeric keys of an execution result
GetTime(r) == IF "execution_time" \in DOMAIN r THEN r.execution_time ELSE 0
GetMemory(r) == IF "memory_used" \in DOMAIN r THEN r.memory_used ELSE 0
GetError(r) == IF "error" \in DOMAIN r THEN r.error ELSE <<>>

\* ------------------------------------------------------- language table
\* language_configs: tag -> whether the profile has a compile_cmd
language_configs ==
    [c |-> [compile_cmd |-> TRUE],
     python |-> [compile_cmd |-> FALSE],
     javascript |-> [compile_cmd |-> FALSE]]

\* tags a client may send: two registered ones and one that is not
Languages == {"c", "python", "ruby"}

\* -------------------------------------------------------- problem store
\* rows of table problems (time_limit in ms, memory_limit in MB)
Problems ==
    <<[test_cases |-> <<>>,
       time_limit |-> 2, memory_limit |-> 1,
       checker_language |-> ""],
      [test_cases |-> <<[expected_output |-> <<"42", " ">>],
                        [expected_output |-> <<"42">>]>>,
       time_limit |-> 2, memory_limit |-> 1,
       checker_language |-> ""],
      [test_cases |-> <<[expected_output |-> <<"42">>]>>,
       time_limit |-> 2, memory_limit |-> 1,
       checker_language |-> "python"]>>

ProblemIds == DOMAIN Problems

\* ------------------------------------------------- what the sandbox does
\* One observation of Docker during one execute_code call:
\*   compile: the compile container exits 0 ("ok") or non-zero ("fail"),
\*            containers.run raises and starts none ("norun"), or
\*            wait(timeout=30), logs or remove raises ("raise");
\*   wait:    the run container exits 0 or non-zero; or creating the
\*            directory or the container raises ("norun"); or, with the
\*            container started, the try block raises an APIError naming a
\*            timeout, another APIError, the ReadTimeout of a
\*            wait(timeout=...) that ran out, or any other exception;
\*   elapsed: int((time.time() - start_time) * 1000);
\*   memory:  stats['memory_stats'].get('usage', 0) // 1024;
\*   stdout:  run_container.logs(stdout=True, stderr=False).
Observations(times, mems, outs) ==
    [compile : {"fail", "raise", "norun"}, wait : {"exit0"}, elapsed : {0},
     memory : {0}, stdout : {<<>>}]
    \cup [compile : {"ok"},
          wait : {"apitimeout", "apierror", "readtimeout", "raise", "norun"},
          elapsed : {0}, memory : {0}, stdout : {<<>>}]
    \cup [compile : {"ok"}, wait : {"exitnz"}, elapsed : times,
          memory : mems, stdout : {<<>>}]
    \cup [compile : {"ok"}, wait : {"exit0"}, elapsed : times,
          memory : mems, stdout : outs]

\* readings for a judged program (problem limits: 2 ms, 1 MB = 1024 KB)
TimeReadings == {0, 2}
MemReadings == {0, 1000, 2000}
ProgramOutputs == {<<" ", "42", " ">>, <<"43">>, <<>>}
ProgramObs == Observations(TimeReadings, MemReadings, ProgramOutputs)

\* readings for a checker (fixed limits: 5000 ms, 64 MB = 65536 KB)
CheckerOutputs ==
    {<<"ACCEPT">>, <<" ", "accept", " ">>, <<"ACCEPT", " ", "extra">>,
     <<"REJECT">>, <<"not", " ", "accept">>, <<>>}
CheckerObs == Observations({0, 5000}, {0, 70000}, CheckerOutputs)

\* the except Exception of execute_code
ExecException ==
    [verdict |-> "RE", error |-> <<"exception">>,
     execution_time |-> 0, memory_used |-> 0]

\* the try block of execute_code from the run container's wait on
RunPhase(time_limit, memory_limit, o) ==
    IF o.wait = "apitimeout" THEN
        [verdict |-> "TLE", execution_time |-> time_limit, memory_used |-> 0]
    ELSE IF o.wait \in {"apierror", "readtimeout", "raise", "norun"} THEN
        ExecException
    ELSE IF o.wait = "exitnz" THEN
        IF o.elapsed >= time_limit THEN
            [verdict |-> "TLE", execution_time |-> o.elapsed,
             memory_used |-> o.memory]
        ELSE
            [verdict |-> "RE", error |-> <<"stderr">>,
             execution_time |-> o.elapsed, memory_used |-> o.memory]
    ELSE IF o.memory > memory_limit * 1024 THEN
        [verdict |-> "MLE", execution_time |-> o.elapsed,
         memory_used |-> o.memory]
    ELSE
        [verdict |-> "SUCCESS", output |-> Strip(o.stdout),
         execution_time |-> o.elapsed, memory_used |-> o.memory]

\* mutant: the profile is looked up inside the try block and the KeyError
\* of an unknown tag ends in the except Exception
ExecuteCode_KeyError(language, time_limit, memory_limit, o) ==
    IF language \notin DOMAIN language_configs THEN
        ExecException
    ELSE IF /\ language_configs[language].compile_cmd
            /\ o.compile \in {"raise", "norun"} THEN
        ExecException
    ELSE IF language_configs[language].compile_cmd /\ o.compile = "fail" THEN
        [verdict |-> "CE", error |-> <<"compile_logs">>,
         execution_time |-> 0, memory_used |-> 0]
    ELSE
        RunPhase(time_limit, memory_limit, o)

\* CodeExecutor.execute_code
ExecuteCode(language, time_limit, memory_limit, o) ==
    IF language \notin DOMAIN language_configs THEN
        [verdict |-> "CE", error |-> <<"Unsupported language">>]
    ELSE IF /\ language_configs[language].compile_cmd
            /\ o.compile \in {"raise", "norun"} THEN
        ExecException
    ELSE IF language_configs[language].compile_cmd /\ o.compile = "fail" THEN
        [verdict |-> "CE", error |-> <<"compile_logs">>,
         execution_time |-> 0, memory_used |-> 0]
    ELSE
        RunPhase(time_limit, memory_limit, o)

\* mutant: a checker that failed counts as accepting
RunDynamicChecker_FailureAccepts(checker_language, o) ==
    LET result == ExecuteCode(checker_language, 5000, 64, o) IN
    IF result.verdict # "SUCCESS" THEN
        <<TRUE, <<"Checker execution failed">>>>
    ELSE
        <<Upper(Strip(result.output)) = <<"ACCEPT">>, result.output>>

\* with tempfile.TemporaryDirectory() is entered
WorkdirCreated(language, o) == language \in DOMAIN language_configs

\* execute_code goes on to the "Execution step"
RunPhaseReached(language, o) ==
    /\ language \in DOMAIN language_configs
    /\ language_configs[language].compile_cmd => o.compile = "ok"

\* containers started by docker_client.containers.run
ContainersCreated(language, o) ==
    IF language \notin DOMAIN language_configs THEN 0
    ELSE (IF language_configs[language].compile_cmd /\ o.compile # "norun"
          THEN 1 ELSE 0)
         + (IF RunPhaseReached(language, o) /\ o.wait # "norun"
            THEN 1 ELSE 0)

\* containers on which remove() was called before execute_code returned
ContainersRemoved(language, o) ==
    IF language \notin DOMAIN language_configs THEN 0
    ELSE (IF /\ language_configs[language].compile_cmd
             /\ o.compile \in {"ok", "fail"}
          THEN 1 ELSE 0)
         + (IF /\ RunPhaseReached(language, o)
               /\ o.wait \in {"exit0", "exitnz", "apitimeout"}
            THEN 1 ELSE 0)

\* run_dynamic_checker: <<is_correct, checker_msg>>
RunDynamicChecker(checker_language, o) ==
    LET result == ExecuteCode(checker_language, 5000, 64, o) IN
    IF result.verdict # "SUCCESS" THEN
        <<FALSE, <<"Checker execution failed">>>>
    ELSE
        <<Upper(Strip(result.output)) = <<"ACCEPT">>, result.output>>

\* ------------------------------------------------------------------ state
VARIABLES
    submissions,   \* table submissions: row id = position
    queue,         \* Redis list judge_queue, head = left end
    pc,            \* where each worker is in main() / judge_submission
    job,           \* submission_data of each worker
    problem,       \* id of the loaded problem row of each worker, 0 = none
    results,       \* results of each worker
    passed_count,  \* passed_count of each worker
    max_time,      \* max_time of each worker
    max_memory,    \* max_memory of each worker
    idx,           \* number of test cases each worker has executed
    last_error,    \* what each worker's except handler printed last
    redelivered,   \* jobs the queue has delivered again
    faults,        \* exceptions raised by the store, the queue or a name
    call           \* the last call of execute_code or run_dynamic_checker
                   \* made on its own, with what it returned

vars == <<submissions, queue, pc, job, problem, results, passed_count,
          max_time, max_memory, idx, last_error, redelivered, faults,
          call>>

locals == <<problem, results, passed_count, max_time, max_memory, idx>>

NoObs == [compile |-> "", wait |-> "", elapsed |-> 0, memory |-> 0,
          stdout |-> <<>>]

NoCall == [fn |-> "none", language |-> "", time_limit |-> 0,
           memory_limit |-> 0, o |-> NoObs, result |-> [verdict |-> ""],
           workdir |-> FALSE, created |-> 0, removed |-> 0,
           accepted |-> FALSE]

NoJob == [submission_id |-> 0, problem_id |-> 0, language |-> ""]

\* job_data of submit_solution
JobData(id, problem_id, language) ==
    [submission_id |-> id, problem_id |-> problem_id, language |-> language]

\* submission_data of submit_solution, with the columns the judge fills
NewRow(problem_id, language) ==
    [problem_id |-> problem_id, language |-> language, verdict |-> "PENDING",
     execution_time |-> 0, memory_used |-> 0, test_cases_passed |-> 0,
     total_test_cases |-> 0, judge_output |-> <<>>]

\* mutant: the job is pushed at the end brpop pops from
LPush_Right(q, x) == Append(q, x)

\* redis lpush / brpop
LPush(q, x) == <<x>> \o q
BrPopValue(q) == q[Len(q)]
BrPopRest(q) == SubSeq(q, 1, Len(q) - 1)

InQueue(id) == \E k \in 1..Len(queue) : queue[k].submission_id = id

Init ==
    /\ submissions = <<>>
    /\ queue = <<>>
    /\ pc = [w \in Workers |-> "idle"]
    /\ job = [w \in Workers |-> NoJob]
    /\ problem = [w \in Workers |-> 0]
    /\ results = [w \in Workers |-> <<>>]
    /\ passed_count = [w \in Workers |-> 0]
    /\ max_time = [w \in Workers |-> 0]
    /\ max_memory = [w \in Workers |-> 0]
    /\ idx = [w \in Workers |-> 0]
    /\ last_error = [w \in Workers |-> ""]
    /\ redelivered = 0
    /\ faults = 0
    /\ call = NoCall

\* ------------------------------------------------------------------- API
\* POST /api/submissions for a problem that exists
submit_solution(problem_id, language) ==
    /\ problem_id \in ProblemIds
    /\ submissions' = Append(submissions, NewRow(problem_id, language))
    /\ queue' = LPush(queue,
                      JobData(Len(submissions) + 1, problem_id, language))
    /\ UNCHANGED <<pc, job, locals, last_error, redelivered, faults, call>>

\* the queue hands out again a job it has already delivered
Redeliver(id) ==
    /\ redelivered < MaxRedeliver
    /\ id \in 1..Len(submissions)
    /\ ~InQueue(id)
    /\ queue' = LPush(queue, JobData(id, submissions[id].problem_id,
                                     submissions[id].language))
    /\ redelivered' = redelivered + 1
    /\ UNCHANGED <<submissions, pc, job, locals, last_error, faults, call>>

\* ---------------------------------------------------------- judge pipeline
\* mutant: the record carries the zero-based index
FailureRecord_ZeroBased(i, result) ==
    [test_case |-> i, verdict |-> result.verdict,
     execution_time |-> GetTime(result), memory_used |-> GetMemory(result),
     error |-> GetError(result)]

\* the record appended when result["verdict"] != "SUCCESS"
FailureRecord(i, result) ==
    [test_case |-> i + 1, verdict |-> result.verdict,
     execution_time |-> GetTime(result), memory_used |-> GetMemory(result),
     error |-> GetError(result)]

\* mutant: the record says AC whatever the check said
CheckedRecord_AlwaysAC(i, is_correct, result, checker_msg) ==
    [test_case |-> i + 1, verdict |-> "AC",
     execution_time |-> result.execution_time,
     memory_used |-> result.memory_used, checker_message |-> checker_msg]

\* the record appended after the output was checked
CheckedRecord(i, is_correct, result, checker_msg) ==
    [test_case |-> i + 1, verdict |-> IF is_correct THEN "AC" ELSE "WA",
     execution_time |-> result.execution_time,
     memory_used |-> result.memory_used, checker_message |-> checker_msg]

\* <<is_correct, checker_msg>> of one test case whose execution succeeded
CheckOutput(p, test_case, result, co) ==
    IF p.checker_language # "" THEN
        RunDynamicChecker(p.checker_language, co)
    ELSE
        <<Strip(result.output) = Strip(test_case.expected_output), <<>>>>

\* mutant: the last reading instead of the maximum
NewMaxTime_Last(old, result) == GetTime(result)

\* max_time = max(max_time, result.get("execution_time", 0))
NewMaxTime(old, result) == Max(old, GetTime(result))

\* max_memory = max(max_memory, result.get("memory_used", 0))
NewMaxMemory(old, result) == Max(old, GetMemory(result))

\* mutant: the loop goes on after a wrong answer
Breaks_OnFailureOnly(result, is_correct) == result.verdict # "SUCCESS"

\* the two break statements of the loop
Breaks(result, is_correct) == result.verdict # "SUCCESS" \/ ~is_correct

Verdicts(rs) == {rs[k].verdict : k \in 1..Len(rs)}

\* mutant: the last else yields AC
FinalVerdict_ElseAC(passed, total, rs) ==
    IF passed = total THEN "AC"
    ELSE IF "TLE" \in Verdicts(rs) THEN "TLE"
    ELSE IF "MLE" \in Verdicts(rs) THEN "MLE"
    ELSE IF "RE" \in Verdicts(rs) THEN "RE"
    ELSE "AC"

\* "Determine final verdict"
FinalVerdict(passed, total, rs) ==
    IF passed = total THEN "AC"
    ELSE IF "TLE" \in Verdicts(rs) THEN "TLE"
    ELSE IF "MLE" \in Verdicts(rs) THEN "MLE"
    ELSE IF "RE" \in Verdicts(rs) THEN "RE"
    ELSE "WA"

\* update_data
UpdateData(row, passed, total, rs, mt, mm) ==
    [row EXCEPT !.verdict = FinalVerdict(passed, total, rs),
                !.execution_time = mt,
                !.memory_used = mm,
                !.test_cases_passed = passed,
                !.total_test_cases = total,
                !.judge_output = rs]

\* supabase ... update(data).eq("id", id): a row that is not there is not
\* updated
StoreUpdate(id, row) ==
    IF id \in 1..Len(submissions)
    THEN [submissions EXCEPT ![id] = row]
    ELSE submissions

ResetLocals(w) ==
    /\ problem' = [problem EXCEPT ![w] = 0]
    /\ results' = [results EXCEPT ![w] = <<>>]
    /\ passed_count' = [passed_count EXCEPT ![w] = 0]
    /\ max_time' = [max_time EXCEPT ![w] = 0]
    /\ max_memory' = [max_memory EXCEPT ![w] = 0]
    /\ idx' = [idx EXCEPT ![w] = 0]

\* mutant: the exception ends the loop
ExceptException_Exits == "exited"

\* where the worker goes when except Exception catches: print, sleep(1),
\* next iteration of while True
ExceptException == "backoff"

\* ------------------------------------------------------------ worker loop
\* job_data = redis_client.brpop(...); submission_data = json.loads(...)
BrPop(w) ==
    /\ pc[w] = "idle"
    /\ queue # <<>>
    /\ job' = [job EXCEPT ![w] = BrPopValue(queue)]
    /\ queue' = BrPopRest(queue)
    /\ pc' = [pc EXCEPT ![w] = "judging_write"]
    /\ UNCHANGED <<submissions, locals, last_error, redelivered, faults, call>>

\* brpop raises (the queue is unreachable)
BrPopRaises(w) ==
    /\ pc[w] = "idle"
    /\ faults < MaxFaults
    /\ faults' = faults + 1
    /\ pc' = [pc EXCEPT ![w] = ExceptException]
    /\ last_error' = [last_error EXCEPT ![w] = "brpop"]
    /\ UNCHANGED <<submissions, queue, job, locals, redelivered, call>>

\* "Update status to judging"
JudgingWrite(w) ==
    /\ pc[w] = "judging_write"
    /\ submissions' =
           StoreUpdate(job[w].submission_id,
                       [submissions[job[w].submission_id]
                            EXCEPT !.verdict = "JUDGING"])
    /\ pc' = [pc EXCEPT ![w] = "load"]
    /\ UNCHANGED <<queue, job, locals, last_error, redelivered, faults, call>>

\* "Get problem details": the row is there, or problem.data is empty
LoadProblem(w) ==
    /\ pc[w] = "load"
    /\ \E found \in BOOLEAN :
          IF found THEN
              /\ problem' = [problem EXCEPT ![w] = job[w].problem_id]
              /\ pc' = [pc EXCEPT ![w] =
                           IF Problems[job[w].problem_id].test_cases = <<>>
                           THEN "final" ELSE "loop"]
              /\ UNCHANGED <<results, passed_count, max_time, max_memory,
                             idx>>
          ELSE
              /\ pc' = [pc EXCEPT ![w] = "idle"]
              /\ UNCHANGED locals
    /\ UNCHANGED <<submissions, queue, job, last_error, redelivered, faults,
                   call>>

\* one iteration of for i, test_case in enumerate(test_cases)
RunTestCase(w, programObs, checkerObs) ==
    /\ pc[w] = "loop"
    /\ LET p == Problems[problem[w]]
           i == idx[w]
           test_case == p.test_cases[i + 1]
       IN \E o \in programObs :
          LET result == ExecuteCode(job[w].language, p.time_limit,
                                    p.memory_limit, o)
              checked == result.verdict = "SUCCESS"
          IN \E co \in IF checked /\ p.checker_language # ""
                       THEN checkerObs ELSE {o} :
             LET chk == IF checked
                        THEN CheckOutput(p, test_case, result, co)
                        ELSE <<FALSE, <<>>>>
                 rec == IF checked
                        THEN CheckedRecord(i, chk[1], result, chk[2])
                        ELSE FailureRecord(i, result)
             IN /\ max_time' = [max_time EXCEPT
                                   ![w] = NewMaxTime(max_time[w], result)]
                /\ max_memory' = [max_memory EXCEPT
                                   ![w] = NewMaxMemory(max_memory[w], result)]
                /\ results' = [results EXCEPT ![w] = Append(results[w], rec)]
                /\ passed_count' = [passed_count EXCEPT
                                   ![w] = IF checked /\ chk[1]
                                          THEN passed_count[w] + 1
                                          ELSE passed_count[w]]
                /\ idx' = [idx EXCEPT ![w] = i + 1]
                /\ pc' = [pc EXCEPT ![w] =
                             IF Breaks(result, chk[1])
                                \/ i + 1 = Len(p.test_cases)
                             THEN "final" ELSE "loop"]
    /\ UNCHANGED <<submissions, queue, job, problem, last_error, redelivered,
                   faults, call>>

\* "Update submission"
FinalWrite(w) ==
    /\ pc[w] = "final"
    /\ submissions' =
           StoreUpdate(job[w].submission_id,
                       UpdateData(submissions[job[w].submission_id],
                                  passed_count[w],
                                  Len(Problems[problem[w]].test_cases),
                                  results[w], max_time[w], max_memory[w]))
    /\ pc' = [pc EXCEPT ![w] = "idle"]
    /\ ResetLocals(w)
    /\ UNCHANGED <<queue, job, last_error, redelivered, faults, call>>

\* json.loads, create_client or the JUDGING update raises, or the
\* problem select, or datetime.now() or the final update; main() catches
JudgeRaises(w) ==
    /\ pc[w] \in {"judging_write", "load", "final"}
    /\ faults < MaxFaults
    /\ faults' = faults + 1
    /\ last_error' = [last_error EXCEPT ![w] = pc[w]]
    /\ pc' = [pc EXCEPT ![w] = ExceptException]
    /\ ResetLocals(w)
    /\ UNCHANGED <<submissions, queue, job, redelivered, call>>

\* time.sleep(1) is over
Backoff(w) ==
    /\ pc[w] = "backoff"
    /\ pc' = [pc EXCEPT ![w] = "idle"]
    /\ UNCHANGED <<submissions, queue, job, locals, last_error, redelivered,
                   faults, call>>

WorkerStep(w, programObs, checkerObs) ==
    \/ BrPop(w)
    \/ BrPopRaises(w)
    \/ JudgingWrite(w)
    \/ LoadProblem(w)
    \/ RunTestCase(w, programObs, checkerObs)
    \/ FinalWrite(w)
    \/ JudgeRaises(w)
    \/ Backoff(w)

Submit(cap, problemIds, languages) ==
    /\ Len(submissions) < cap
    /\ \E p \in problemIds, l \in languages : submit_solution(p, l)

Redelivery == \E id \in 1..Len(submissions) : Redeliver(id)

\* One worker judging one submission, with every reading of the sandbox.
Next ==
    \/ Submit(1, ProblemIds, Languages)
    \/ Redelivery
    \/ WorkerStep("w1", ProgramObs, CheckerObs)

Spec == Init /\ [][Next]_vars

\* Several workers sharing the queue and the store; the sandbox's readings
\* are cut down to the verdict they lead to.
CoarseProgramObs == Observations({0}, {0}, {<<"42">>, <<"43">>})
CoarseCheckerObs == Observations({0}, {0}, {<<"ACCEPT">>, <<"REJECT">>})

WorkersNext ==
    \/ Submit(MaxSubs, {1, 2}, {"python"})
    \/ Redelivery
    \/ \E w \in Workers : WorkerStep(w, CoarseProgramObs, CoarseCheckerObs)

WorkersSpec == Init /\ [][WorkersNext]_vars

\* One worker under a fair scheduler: a worker that can take a step takes
\* one.  Nothing in the code hands a popped job out again, so Redelivery is
\* not fair.  Two submissions, so that one job can fail while another waits.
LiveNext ==
    \/ Submit(2, {1, 2}, {"python"})
    \/ Redelivery
    \/ WorkerStep("w1", CoarseProgramObs, CoarseCheckerObs)

LiveSpec ==
    /\ Init
    /\ [][LiveNext]_vars
    /\ WF_vars(WorkerStep("w1", CoarseProgramObs, CoarseCheckerObs))

\* execute_code and run_dynamic_checker called on their own, on every
\* language tag, every problem's limits and every reading of the sandbox.
judgeVars == <<submissions, queue, pc, job, locals, last_error, redelivered,
               faults>>

execute_code(language, time_limit, memory_limit, o) ==
    /\ call' = [fn |-> "execute_code", language |-> language,
                time_limit |-> time_limit, memory_limit |-> memory_limit,
                o |-> o,
                result |-> ExecuteCode(language, time_limit, memory_limit, o),
                workdir |-> WorkdirCreated(language, o),
                created |-> ContainersCreated(language, o),
                removed |-> ContainersRemoved(language, o),
                accepted |-> FALSE]
    /\ UNCHANGED judgeVars

run_dynamic_checker(checker_language, o) ==
    /\ call' = [fn |-> "run_dynamic_checker", language |-> checker_language,
                time_limit |-> 5000, memory_limit |-> 64, o |-> o,
                result |-> ExecuteCode(checker_language, 5000, 64, o),
                workdir |-> WorkdirCreated(checker_language, o),
                created |-> ContainersCreated(checker_language, o),
                removed |-> ContainersRemoved(checker_language, o),
                accepted |-> RunDynamicChecker(checker_language, o)[1]]
    /\ UNCHANGED judgeVars

ExecNext ==
    \/ \E l \in Languages, p \in ProblemIds, o \in ProgramObs :
          execute_code(l, Problems[p].time_limit, Problems[p].memory_limit, o)
    \/ \E l \in Languages, o \in CheckerObs : run_dynamic_checker(l, o)

ExecSpec == Init /\ [][ExecNext]_vars

\* One worker and the API alone: every job is enqueued once, by
\* submit_solution, so that submission ids count the enqueues.
SerialNext ==
    \/ Submit(MaxSubs, {1, 2}, {"python"})
    \/ WorkerStep("w1", CoarseProgramObs, CoarseCheckerObs)

SerialSpec == Init /\ [][SerialNext]_vars

\* ----------------------------------------------------------------- claims
Rows == 1..Len(submissions)
IsTerminal(id) == submissions[id].verdict \in TerminalVerdicts
Judging(w) == pc[w] \in {"load", "loop", "final"}
LastOf(rs) == rs[Len(rs)]

RECURSIVE MaxOf(_)
MaxOf(ns) == IF ns = <<>> THEN 0 ELSE Max(Head(ns), MaxOf(Tail(ns)))

\* the worst verdict of a judge_output under CE > TLE > MLE > RE > WA
Worst(rs) ==
    IF "CE" \in Verdicts(rs) THEN "CE"
    ELSE IF "TLE" \in Verdicts(rs) THEN "TLE"
    ELSE IF "MLE" \in Verdicts(rs) THEN "MLE"
    ELSE IF "RE" \in Verdicts(rs) THEN "RE"
    ELSE IF "WA" \in Verdicts(rs) THEN "WA"
    ELSE "none"

\* C1: once a submission's verdict is terminal, no step sets it back to
\* JUDGING or PENDING, whatever jobs are delivered or delivered again.
C1_NoTerminalToNonTerminal ==
    [][\A id \in Rows :
          IsTerminal(id) => submissions'[id].verdict \in TerminalVerdicts]_vars

\* C2: a job delivered for a submission whose verdict is already terminal is
\* dropped: the first step of judge_submission writes nothing to the row and
\* the worker goes back to the loop without running a test case.
C2_TerminalJobDropped ==
    [][\A w \in Workers :
          (/\ pc[w] = "judging_write"
           /\ pc'[w] # "judging_write"
           /\ job[w].submission_id \in Rows
           /\ IsTerminal(job[w].submission_id))
          => (/\ submissions' = submissions
              /\ pc'[w] \in {"idle", "backoff"})]_vars

\* C3: the verdict of a terminal submission is AC or the worst verdict of its
\* judge_output under CE > TLE > MLE > RE > WA; a CE record yields CE.
C3_PriorityLaw ==
    \A id \in Rows :
        IsTerminal(id) =>
            \/ submissions[id].verdict = "AC"
            \/ submissions[id].verdict = Worst(submissions[id].judge_output)

\* C4: a terminal submission has verdict AC exactly when test_cases_passed
\* equals total_test_cases.
C4_AcIffAllPassed ==
    \A id \in Rows :
        IsTerminal(id) =>
            (submissions[id].verdict = "AC"
             <=> submissions[id].test_cases_passed
                 = submissions[id].total_test_cases)

C4_Witness ==
    \E id \in Rows :
        /\ IsTerminal(id)
        /\ submissions[id].verdict = "WA"
        /\ submissions[id].test_cases_passed = 1
        /\ submissions[id].total_test_cases = 2

\* C5: when the problem row is missing, judge_submission records verdict RE
\* on the submission before it stops.
C5_MissingProblemRecordsRE ==
    [][\A w \in Workers :
          (pc[w] = "load" /\ pc'[w] = "idle" /\ job[w].submission_id \in Rows)
          => submissions'[job[w].submission_id].verdict = "RE"]_vars

\* C6: the loop ends at the first test case that is not AC: a worker whose
\* last record is not AC is out of the loop, only the last record can be
\* other than AC, and a persisted judge_output with a record other than AC
\* ends with it and has length test_cases_passed + 1.
C6_EarlyStop ==
    /\ \A w \in Workers :
          /\ (results[w] # <<>> /\ LastOf(results[w]).verdict # "AC")
             => pc[w] # "loop"
          /\ \A k \in 1..(Len(results[w]) - 1) : results[w][k].verdict = "AC"
    /\ \A id \in Rows :
          LET row == submissions[id] IN
          (IsTerminal(id) /\ (row.verdict # "AC"
                              \/ Verdicts(row.judge_output) \ {"AC"} # {}))
          => /\ row.judge_output # <<>>
             /\ LastOf(row.judge_output).verdict # "AC"
             /\ \A k \in 1..(Len(row.judge_output) - 1) :
                   row.judge_output[k].verdict = "AC"
             /\ Len(row.judge_output) = row.test_cases_passed + 1

C6_Witness ==
    \E id \in Rows :
        /\ IsTerminal(id)
        /\ submissions[id].total_test_cases = 2
        /\ Len(submissions[id].judge_output) = 1
        /\ submissions[id].judge_output[1].verdict = "WA"

\* C7: the execution_time and memory_used of a terminal submission are the
\* maxima of those fields over its judge_output, 0 when it is empty.
C7_MaximaPersisted ==
    \A id \in Rows :
        LET row == submissions[id]
            n == Len(row.judge_output)
        IN IsTerminal(id) =>
            /\ row.execution_time
               = MaxOf([k \in 1..n |-> row.judge_output[k].execution_time])
            /\ row.memory_used
               = MaxOf([k \in 1..n |-> row.judge_output[k].memory_used])

C7_Witness ==
    \E id \in Rows :
        LET row == submissions[id] IN
        /\ IsTerminal(id)
        /\ Len(row.judge_output) = 2
        /\ row.judge_output[2].verdict = "RE"
        /\ row.judge_output[2].error = <<"exception">>
        /\ row.judge_output[1].execution_time > 0
        /\ row.judge_output[1].memory_used > 0
        /\ row.execution_time = row.judge_output[1].execution_time

\* the worker's handler has just caught the failure of the final write for
\* submission id
FinalWriteFailed(w, id) ==
    pc[w] = "backoff" /\ last_error[w] = "final" /\ job[w].submission_id = id

\* C8: the loop survives a failing job: once the handler has caught an
\* exception, the worker still pops every job that is in the queue or comes
\* into it, so the queue drains.
C8_LoopSurvives ==
    \A w \in LiveWorkers :
        (last_error[w] # "" /\ queue # <<>>) ~> (queue = <<>>)

C8_Witness ==
    \E w \in LiveWorkers :
        /\ pc[w] = "backoff"
        /\ last_error[w] \in {"judging_write", "load", "final"}
        /\ queue # <<>>

\* C9: when the final write fails the stored verdict stays JUDGING, and the
\* job is judged again, so that the submission ends up terminal.
C9_FailedWriteRejudged ==
    \A w \in LiveWorkers : \A id \in {1, 2} :
        /\ [](FinalWriteFailed(w, id) => submissions[id].verdict = "JUDGING")
        /\ FinalWriteFailed(w, id) ~> (id \in Rows /\ IsTerminal(id))

\* C10: two workers are never both between their JUDGING write and their
\* final write for the same submission.
C10_OneJudgePerSubmission ==
    \A w1 \in Workers : \A w2 \in Workers \ {w1} :
        (Judging(w1) /\ Judging(w2))
        => job[w1].submission_id # job[w2].submission_id

\* C11: test cases run in the stored order and judge_output holds one record
\* per executed test case in that order: a worker that has executed idx test
\* cases holds idx records, and the k-th record of a worker or of a judged
\* row carries test_case = k.
C11_RecordsInOrder ==
    /\ \A w \in Workers :
          /\ Len(results[w]) = idx[w]
          /\ \A k \in 1..Len(results[w]) : results[w][k].test_case = k
    /\ \A id \in Rows :
          IsTerminal(id) =>
              \A k \in 1..Len(submissions[id].judge_output) :
                  submissions[id].judge_output[k].test_case = k

C11_Witness ==
    \E id \in Rows :
        /\ IsTerminal(id)
        /\ Len(submissions[id].judge_output) = 2
        /\ submissions[id].judge_output[1].verdict = "AC"
        /\ submissions[id].judge_output[2].verdict = "TLE"

\* C12: a worker judges one job at a time, in the order submit_solution
\* enqueued them: it takes a new job only from the top of the loop, after
\* the previous judge_submission call has returned or raised, and the job it
\* takes is the one enqueued right after the one it took before.
C12_SerialFifo ==
    [][\A w \in LiveWorkers :
          /\ pc[w] # "idle" => job'[w] = job[w]
          /\ job'[w] # job[w]
             => job'[w].submission_id = job[w].submission_id + 1]_vars

C12_Witness ==
    /\ Len(submissions) = 2
    /\ IsTerminal(1)
    /\ job["w1"].submission_id = 2
    /\ Judging("w1")

CheckerFailed == <<"Checker execution failed">>

\* the record comes from a test case whose checker did not end in SUCCESS
CheckerFailedRecord(rec) ==
    "checker_message" \in DOMAIN rec /\ rec.checker_message = CheckerFailed

\* C14: a checker whose execution ends with a verdict other than SUCCESS
\* makes run_dynamic_checker return (False, "Checker execution failed"); the
\* test case is recorded as WA with that message and the submission's final
\* verdict is WA.
\* a fact about run_dynamic_checker alone, which holds in one state if it
\* holds in any: it is evaluated where no submission exists yet
CheckerFailureRejects ==
    \A l \in Languages : \A o \in CheckerObs :
        ExecuteCode(l, 5000, 64, o).verdict # "SUCCESS"
        => RunDynamicChecker(l, o) = <<FALSE, CheckerFailed>>

C14_CheckerFailureIsWA ==
    /\ submissions = <<>> => CheckerFailureRejects
    /\ \A w \in Workers : \A k \in 1..Len(results[w]) :
          CheckerFailedRecord(results[w][k]) => results[w][k].verdict = "WA"
    /\ \A id \in Rows :
          LET row == submissions[id] IN
          (IsTerminal(id)
           /\ \E k \in 1..Len(row.judge_output) :
                 CheckerFailedRecord(row.judge_output[k]))
          => /\ row.verdict = "WA"
             /\ \A k \in 1..Len(row.judge_output) :
                   CheckerFailedRecord(row.judge_output[k])
                   => row.judge_output[k].verdict = "WA"

C14_Witness ==
    \E id \in Rows :
        /\ IsTerminal(id)
        /\ Len(submissions[id].judge_output) = 1
        /\ CheckerFailedRecord(submissions[id].judge_output[1])
        /\ submissions[id].verdict = "WA"

\* C15: a CE record is the only record of its judge_output and is the record
\* of test case 1.
C15_CEIsSoleEntry ==
    \A id \in Rows :
        LET row == submissions[id] IN
        IsTerminal(id) =>
            \A k \in 1..Len(row.judge_output) :
                row.judge_output[k].verdict = "CE"
                => /\ Len(row.judge_output) = 1
                   /\ row.judge_output[k].test_case = 1

CountAC(rs) == Cardinality({k \in 1..Len(rs) : rs[k].verdict = "AC"})

\* passed counts the AC records of rs, which all come before any other
\* record, and rs holds at most total records
PassedCountsAC(passed, rs, total) ==
    /\ passed = CountAC(rs)
    /\ \A k \in 1..(Len(rs) - 1) : rs[k].verdict = "AC"
    /\ passed <= Len(rs)
    /\ Len(rs) <= total

\* C19: in every state of the loop and in the persisted result,
\* test_cases_passed is the number of AC records, every record but the last
\* is AC, and test_cases_passed <= len(judge_output) <= total_test_cases.
C19_PassedCountsAC ==
    /\ \A w \in Workers :
          problem[w] # 0
          => PassedCountsAC(passed_count[w], results[w],
                            Len(Problems[problem[w]].test_cases))
    /\ \A id \in Rows :
          IsTerminal(id)
          => PassedCountsAC(submissions[id].test_cases_passed,
                            submissions[id].judge_output,
                            submissions[id].total_test_cases)

C19_Witness ==
    \E w \in Workers :
        /\ pc[w] = "loop"
        /\ passed_count[w] = 1
        /\ Len(results[w]) = 1
        /\ Len(Problems[problem[w]].test_cases) = 2

\* C13: every container execute_code has started is removed when it returns.
C13_ContainersRemoved ==
    call.fn # "none" => call.removed = call.created

\* the wait on the run container ran into its deadline
WaitTimedOut(c) ==
    /\ RunPhaseReached(c.language, c.o)
    /\ c.o.wait \in {"apitimeout", "readtimeout"}

\* C16: when the wait on the run container times out, execute_code returns
\* TLE with execution_time equal to the time limit.
C16_WaitTimeoutIsTLE ==
    (call.fn = "execute_code" /\ WaitTimedOut(call))
    => /\ call.result.verdict = "TLE"
       /\ call.result.execution_time = call.time_limit

\* the reading is at least 95% of the cap of memory_limit MB
NearMemoryCap(memory, memory_limit) ==
    memory * 100 >= 95 * memory_limit * 1024

\* C17: a run that exits non-zero without timing out is MLE when the peak
\* memory is at least 95% of the cap and RE otherwise; it is TLE only if the
\* time limit was exceeded.
C17_NonZeroExitClassified ==
    (/\ call.fn = "execute_code"
     /\ RunPhaseReached(call.language, call.o)
     /\ call.o.wait = "exitnz")
    => /\ NearMemoryCap(call.o.memory, call.memory_limit)
          => call.result.verdict = "MLE"
       /\ (/\ ~NearMemoryCap(call.o.memory, call.memory_limit)
           /\ call.o.elapsed < call.time_limit)
          => call.result.verdict = "RE"
       /\ call.result.verdict = "TLE" => call.o.elapsed >= call.time_limit

\* the first whitespace-separated token of s, "" if there is none
FirstToken(s) == IF LStrip(s) = <<>> THEN "" ELSE Head(LStrip(s))

\* C18: run_dynamic_checker accepts exactly when the first token of the
\* checker's output, upper-cased, is ACCEPT.
C18_FirstTokenDecides ==
    (call.fn = "run_dynamic_checker" /\ call.result.verdict = "SUCCESS")
    => (call.accepted
        <=> UpperTok(FirstToken(call.result.output)) = "ACCEPT")

Unregistered == Languages \ DOMAIN language_configs

UnsupportedResult == [verdict |-> "CE", error |-> <<"Unsupported language">>]

UnsupportedRecord ==
    [test_case |-> 1, verdict |-> "CE", execution_time |-> 0,
     memory_used |-> 0, error |-> <<"Unsupported language">>]

\* execute_code on a tag that is not registered returns CE "Unsupported
\* language" and creates neither a working directory nor a container (a
\* fact about execute_code alone, evaluated where no submission exists yet)
UnsupportedReturnsCE ==
    \A l \in Unregistered : \A p \in ProblemIds : \A o \in ProgramObs :
        /\ ExecuteCode(l, Problems[p].time_limit, Problems[p].memory_limit, o)
           = UnsupportedResult
        /\ ~WorkdirCreated(l, o)
        /\ ContainersCreated(l, o) = 0

\* C20 as stated: every judged submission in an unregistered language has
\* exactly one record, CE with time 0 and memory 0, and no test case passed.
C20_UnsupportedOneRecord ==
    /\ submissions = <<>> => UnsupportedReturnsCE
    /\ \A id \in Rows :
          (IsTerminal(id) /\ submissions[id].language \in Unregistered)
          => /\ submissions[id].judge_output = <<UnsupportedRecord>>
             /\ submissions[id].test_cases_passed = 0

\* C20, amended: the same for a problem that has at least one test case;
\* with no test case nothing is executed and judge_output is empty.
C20_UnsupportedOneRecordIfTested ==
    /\ submissions = <<>> => UnsupportedReturnsCE
    /\ \A id \in Rows :
          (IsTerminal(id) /\ submissions[id].language \in Unregistered)
          => /\ submissions[id].test_cases_passed = 0
             /\ submissions[id].judge_output
                = IF Problems[submissions[id].problem_id].test_cases = <<>>
                  THEN <<>> ELSE <<UnsupportedRecord>>

C20_Witness ==
    \E id \in Rows :
        /\ IsTerminal(id)
        /\ submissions[id].language \in Unregistered
        /\ submissions[id].total_test_cases = 2
        /\ submissions[id].judge_output = <<UnsupportedRecord>>

====
